---- MODULE Spec2Model ----
(***************************************************************************)
(* Model of the travel agent: the stdio JSON-RPC client (mcp_client.py)    *)
(* and the conversation loop with its tool map (main.py, tools.py).        *)
(*                                                                         *)
(* A Python str is a sequence of string tokens; concatenation is \o.       *)
(* A line the server answers with is a record describing the JSON value.   *)
(***************************************************************************)
EXTENDS Integers, Sequences, FiniteSets, TLC

VARIABLES
    process,            \* FastMCPClient.process: 0 is None, else the child's number
    request_id,         \* FastMCPClient.request_id
    available_tools,    \* FastMCPClient.available_tools
    procs,              \* what happened to each child process spawned
    signals,            \* the signals sent to children, in order
    wire,               \* the lines written to and read from children, in order
    built,              \* the ids of the requests built, in order
    ret,                \* the outcome of the last call of a client method
    pc,                 \* where the program of main.py stands
    conversation_history,
    TOOL_MAP,
    pending,            \* response.tool_calls still to dispatch in chat()
    dispatched,         \* the tool invocations made, in order
    turns,              \* chat() calls made by the input loop
    answer              \* what the last chat() returned

clientVars == <<process, request_id, available_tools, procs, signals, wire, built, ret>>
mainVars == <<pc, conversation_history, TOOL_MAP, pending, dispatched, turns, answer>>
vars == <<process, request_id, available_tools, procs, signals, wire, built, ret,
          pc, conversation_history, TOOL_MAP, pending, dispatched, turns, answer>>

----------------------------------------------------------------------------
(* Bounds *)

MaxProcs == 2       \* child processes spawned in one run
MaxId == 3          \* no call begins once request_id has reached this
MaxTurns == 2       \* chat() calls of the input loop
MaxModelCalls == 2  \* model invocations in one run

----------------------------------------------------------------------------
(* Python values *)

None == 0

Str(tok) == <<tok>>

\* s contains sub as a contiguous part
Contains(s, sub) ==
    \E i \in 0..(Len(s) - Len(sub)) :
        \A j \in 1..Len(sub) : s[i + j] = sub[j]

NoStr == <<>>

\* the texts of call_tool, without the mark the source puts in front of them
\* mcp_client.py:187
NoResponseMsg == Str("Error: No response from MCP server")
\* mcp_client.py:192
ErrorCallingPrefix == Str("Error calling tool: ")
\* mcp_client.py:191
UnknownErrorMsg == Str("Unknown error")
\* mcp_client.py:197
NoTextDefault == Str("No response from MCP server")
\* mcp_client.py:200
InvalidResponseMsg == Str("Error: Invalid response from MCP server")

----------------------------------------------------------------------------
(* Tool definitions a server may declare in tools/list *)

GetWeather == [name |-> "get_weather", properties |-> {"location"}, required |-> {"location"}]
\* a second declaration of the same name, with another schema
GetWeatherLoose == [name |-> "get_weather", properties |-> {"location"}, required |-> {}]
\* a declaration that takes the name of a local tool
RemoteCalc == [name |-> "tool_calc", properties |-> {"expression"}, required |-> {}]

ToolDefs == { GetWeather, GetWeatherLoose, RemoteCalc }

ToolLists ==
    { <<>>, <<GetWeather>>, <<GetWeather, RemoteCalc>>, <<GetWeather, GetWeatherLoose>> }

----------------------------------------------------------------------------
(* What the server does with one request: the write fails, the read meets  *)
(* end-of-stream, the line is not JSON, or the line is a JSON value.       *)

AbsentField == [t |-> "absent", message |-> NoStr, hasMessage |-> FALSE]

ErrorShapes(msgs) ==
    { AbsentField,
      [t |-> "null", message |-> NoStr, hasMessage |-> FALSE],
      [t |-> "object", message |-> NoStr, hasMessage |-> FALSE] }
    \cup { [t |-> "string", message |-> m, hasMessage |-> FALSE] : m \in msgs }
    \cup { [t |-> "object", message |-> m, hasMessage |-> TRUE] : m \in msgs }

NoContent == [t |-> "missing", text |-> NoStr]

ContentShapes(texts) ==
    { NoContent,
      [t |-> "empty", text |-> NoStr],
      [t |-> "notext", text |-> NoStr],
      [t |-> "textnull", text |-> NoStr],
      [t |-> "nonobject", text |-> NoStr] }
    \cup { [t |-> "text", text |-> x] : x \in texts }

AbsentResult == [t |-> "absent", content |-> NoContent, hasTools |-> FALSE, tools |-> <<>>]

CallResultShapes(texts) ==
    { AbsentResult,
      [t |-> "null", content |-> NoContent, hasTools |-> FALSE, tools |-> <<>>],
      [t |-> "nonobject", content |-> NoContent, hasTools |-> FALSE, tools |-> <<>>] }
    \cup { [t |-> "object", content |-> c, hasTools |-> FALSE, tools |-> <<>>] :
             c \in ContentShapes(texts) }

ListResultShapes ==
    { AbsentResult,
      [t |-> "null", content |-> NoContent, hasTools |-> FALSE, tools |-> <<>>],
      [t |-> "nonobject", content |-> NoContent, hasTools |-> FALSE, tools |-> <<>>],
      [t |-> "object", content |-> NoContent, hasTools |-> FALSE, tools |-> <<>>] }
    \cup { [t |-> "object", content |-> NoContent, hasTools |-> TRUE, tools |-> l] :
             l \in ToolLists }

Bare(kind) ==
    [t |-> kind, jsonrpc |-> FALSE, id |-> 0, error |-> AbsentField, result |-> AbsentResult]

\* the id a response line carries: the request's or the one before it (0: none)
ResponseIds(reqid) == {reqid, reqid - 1}

\* objects with every given error beside the results in `beside` and every
\* given result without an error
Objects(reqid, errors, results, beside) ==
    { Bare("object") }
    \cup { [t |-> "object", jsonrpc |-> TRUE, id |-> i, error |-> e, result |-> r] :
             i \in ResponseIds(reqid), e \in errors, r \in beside }
    \cup { [t |-> "object", jsonrpc |-> TRUE, id |-> i, error |-> AbsentField, result |-> r] :
             i \in ResponseIds(reqid), r \in results }

Failures == { Bare("closed"), Bare("eof"), Bare("malformed") }

NonObjects == { Bare("null"), Bare("number") }

Messages == { Str("boom") }
Texts == { NoStr, Str("sunny") }

EmptyResult == [t |-> "object", content |-> NoContent, hasTools |-> FALSE, tools |-> <<>>]

InitReactions(reqid) ==
    Failures \cup NonObjects
    \cup Objects(reqid, ErrorShapes(Messages), {AbsentResult, EmptyResult},
                 {AbsentResult, EmptyResult})

ListReactions(reqid) ==
    Failures \cup NonObjects
    \cup Objects(reqid, { [t |-> "object", message |-> m, hasMessage |-> TRUE] : m \in Messages },
                 ListResultShapes, {AbsentResult, EmptyResult})

TextResult(text) ==
    [t |-> "object", content |-> [t |-> "text", text |-> text],
     hasTools |-> FALSE, tools |-> <<>>]

CallReactions(reqid) ==
    Failures \cup NonObjects
    \cup Objects(reqid, ErrorShapes(Messages), CallResultShapes(Texts),
                 {AbsentResult, TextResult(Str("sunny"))})

Line(reqid, error, result) ==
    [t |-> "object", jsonrpc |-> TRUE, id |-> reqid, error |-> error, result |-> result]

\* the reactions the conversation loop is run against: one of each kind of outcome
ChatReactions(reqid) ==
    { Bare("closed"), Bare("eof"), Bare("malformed"),
      Line(reqid, [t |-> "object", message |-> Str("boom"), hasMessage |-> TRUE], AbsentResult),
      Line(reqid, AbsentField, TextResult(Str("sunny"))),
      Line(reqid, AbsentField,
           [t |-> "object", content |-> [t |-> "empty", text |-> NoStr],
            hasTools |-> FALSE, tools |-> <<>>]),
      Line(reqid, AbsentField,
           [t |-> "null", content |-> NoContent, hasTools |-> FALSE, tools |-> <<>>]) }

\* a notification is lost only on a closed pipe, and a closed pipe stays closed
PipeStaysClosed(notifWritten, listR) == notifWritten \/ listR.t = "closed"

----------------------------------------------------------------------------
(* FastMCPClient *)

\* `if not x` on what _send_request returned
Falsy(resp) ==
    \/ resp.t \in {"none", "null"}
    \/ /\ resp.t = "object"
       /\ ~resp.jsonrpc
       /\ resp.id = 0
       /\ resp.error.t = "absent"
       /\ resp.result.t = "absent"

\* `"key" in x` raises TypeError when x is a number
HasError(resp) == resp.t = "object" /\ resp.error.t # "absent"
HasResult(resp) == resp.t = "object" /\ resp.result.t # "absent"

\* _send_request: what the caller gets back, None on any failure
SendRequestReturn(proc, reaction) ==
    IF proc = None \/ reaction.t \in {"closed", "eof", "malformed"}
    THEN Bare("none")
    ELSE reaction

\* a slip: the request is written and the answer is not waited for
SendRequestWireNoRead(proc, method, id, reaction) ==
    IF proc = None \/ reaction.t = "closed"
    THEN <<>>
    ELSE << [ev |-> "write", proc |-> proc, method |-> method, id |-> id] >>

\* _send_request: what it leaves on the wire
SendRequestWire(proc, method, id, reaction) ==
    IF proc = None \/ reaction.t = "closed"
    THEN <<>>
    ELSE << [ev |-> "write", proc |-> proc, method |-> method, id |-> id],
            [ev |-> "read", proc |-> proc,
             method |-> IF reaction.t \in {"eof", "malformed"} THEN "failed" ELSE "line",
             id |-> id] >>

\* _send_notification: what it leaves on the wire
SendNotificationWire(proc, method, written) ==
    IF proc = None \/ ~written
    THEN <<>>
    ELSE << [ev |-> "write", proc |-> proc, method |-> method, id |-> 0] >>

Returned(v) == [raised |-> FALSE, isstr |-> TRUE, value |-> v]
ReturnedNone == [raised |-> FALSE, isstr |-> FALSE, value |-> NoStr]
Raised == [raised |-> TRUE, isstr |-> FALSE, value |-> NoStr]

\* a slip: the server's message is dropped for the default one
ErrorTextGeneric(error) == ErrorCallingPrefix \o UnknownErrorMsg

\* call_tool, lines 191-192: error.get('message', 'Unknown error') behind the prefix
ErrorText(error) ==
    ErrorCallingPrefix \o (IF error.hasMessage THEN error.message ELSE UnknownErrorMsg)

\* a slip: the missing response is not tested for and the next line faults
NoResponseOutcomeUnguarded == Raised

\* call_tool, lines 186-187
NoResponseOutcome == Returned(NoResponseMsg)

\* call_tool, lines 186-200: from the response to the outcome
CallToolOutcome(resp) ==
    IF Falsy(resp) THEN NoResponseOutcome
    ELSE IF resp.t = "number" THEN Raised                     \* "error" in 5
    ELSE IF HasError(resp) THEN
        IF resp.error.t # "object" THEN Raised                \* error.get on str, None
        ELSE Returned(ErrorText(resp.error))
    ELSE IF HasResult(resp) THEN
        IF resp.result.t # "object" THEN Raised               \* result.get on None, str
        ELSE CASE resp.result.content.t \in {"missing", "empty"} -> Returned(InvalidResponseMsg)
               [] resp.result.content.t = "nonobject" -> Raised
               [] resp.result.content.t = "notext" -> Returned(NoTextDefault)
               [] resp.result.content.t = "textnull" -> ReturnedNone
               [] OTHER -> Returned(resp.result.content.text)
    ELSE Returned(InvalidResponseMsg)

----------------------------------------------------------------------------
(* The child processes *)

Procs == 1..MaxProcs

Spawned == { p \in Procs : procs[p] # "unspawned" }

\* the number the next child gets
NextProc == Cardinality(Spawned) + 1

\* the last call of a client method, as `ret` keeps it: the method, what
\* _send_request handed back to it, and how it ended
Ret(op, response, listing, o, ok) ==
    [op |-> op, response |-> response, listing |-> listing,
     raised |-> o.raised, isstr |-> o.isstr, value |-> o.value, ok |-> ok]

Plain == [raised |-> FALSE, isstr |-> FALSE, value |-> NoStr]

StartRet(init_response, tools_response, b) == Ret("start", init_response, tools_response, Plain, b)
CallRet(response, o) == Ret("call_tool", response, Bare("none"), o, ~o.raised)

\* a slip: the counter is read and not advanced
NextIdStuck == request_id

\* _next_id, lines 114-117: the id of the next request built
NextId == request_id + 1

\* a slip: the error field of the initialize response is not looked at
InitOutcomeIgnoresError(init_response) ==
    IF Falsy(init_response) THEN "no_response"
    ELSE IF init_response.t = "number" THEN "fault"
    ELSE "ok"

\* start(), lines 58-70: what the initialize response leads to
InitOutcome(init_response) ==
    IF Falsy(init_response) THEN "no_response"
    ELSE IF init_response.t = "number" THEN "fault"           \* "error" in 5
    ELSE IF HasError(init_response) THEN "error"
    ELSE "ok"

\* a slip: the test of lines 92-94 for a null result is missing and the
\* default of line 96 is taken
ListOutcomeNullOk(tools_response) ==
    IF Falsy(tools_response) THEN "no_response"
    ELSE IF tools_response.t = "number" THEN "fault"
    ELSE IF HasResult(tools_response) THEN
        CASE tools_response.result.t = "nonobject" -> "fault"
          [] OTHER -> "ok"
    ELSE "no_result"

\* start(), lines 86-103: what the tools/list response leads to
ListOutcome(tools_response) ==
    IF Falsy(tools_response) THEN "no_response"
    ELSE IF tools_response.t = "number" THEN "fault"          \* "result" in 5
    ELSE IF HasResult(tools_response) THEN
        CASE tools_response.result.t = "null" -> "null_result"
          [] tools_response.result.t = "nonobject" -> "fault" \* result.get on a str
          [] OTHER -> "ok"
    ELSE "no_result"

\* start(), line 96: result.get("tools", [])
ToolsOf(tools_response) ==
    IF tools_response.result.hasTools THEN tools_response.result.tools ELSE <<>>

\* one signal sent to one child
Signal(p, sig) == [proc |-> p, sig |-> sig]

\* a slip: the except branch returns False and leaves the handle as it is
StartExceptKeepsHandle(held, id, w, b, r) ==
    /\ UNCHANGED <<process, procs, signals, available_tools>>
    /\ request_id' = id
    /\ wire' = wire \o w
    /\ built' = b
    /\ ret' = r

\* start(), lines 105-112: the except branch; held is self.process when the fault is raised
StartExcept(held, id, w, b, r) ==
    /\ process' = None
    /\ procs' = IF held = None THEN procs
                ELSE [procs EXCEPT ![held] = "terminated"]
    /\ signals' = IF held = None THEN signals
                  ELSE Append(signals, Signal(held, "TERM"))
    /\ request_id' = id
    /\ wire' = wire \o w
    /\ built' = b
    /\ UNCHANGED available_tools
    /\ ret' = r

\* start(), a return that is no fault: the child stays as it is
StartReturn(p, id, w, b, tools, r) ==
    /\ process' = p
    /\ procs' = [procs EXCEPT ![p] = "running"]
    /\ UNCHANGED signals
    /\ request_id' = id
    /\ wire' = wire \o w
    /\ built' = b
    /\ available_tools' = tools
    /\ ret' = r

\* start(): Popen, the initialize request, the initialized notification, tools/list
Start(spawnOk, initR, notifWritten, listR) ==
    LET p == NextProc
        id1 == NextId
        id2 == id1 + 1
        w1 == SendRequestWire(p, "initialize", id1, initR)
        init_response == SendRequestReturn(p, initR)
        w2 == w1 \o SendNotificationWire(p, "notifications/initialized", notifWritten)
                 \o SendRequestWire(p, "tools/list", id2, listR)
        tools_response == SendRequestReturn(p, listR)
        b1 == Append(built, id1)
        b2 == Append(b1, id2)
        r1 == StartRet(init_response, Bare("none"), FALSE)
        r2(ok) == StartRet(init_response, tools_response, ok)
    IN  IF ~spawnOk
        THEN StartExcept(process, request_id, <<>>, built,
                         StartRet(Bare("none"), Bare("none"), FALSE))
        ELSE CASE InitOutcome(init_response) = "fault" -> StartExcept(p, id1, w1, b1, r1)
               [] InitOutcome(init_response) \in {"no_response", "error"} ->
                      StartReturn(p, id1, w1, b1, available_tools, r1)
               [] OTHER ->
                    CASE ListOutcome(tools_response) = "fault" ->
                             StartExcept(p, id2, w2, b2, r2(FALSE))
                      [] ListOutcome(tools_response) = "ok" ->
                             StartReturn(p, id2, w2, b2, ToolsOf(tools_response), r2(TRUE))
                      [] OTHER ->
                             StartReturn(p, id2, w2, b2, available_tools, r2(FALSE))

\* start() against every server: what is never read has one value only
StartAny ==
    \E spawnOk \in BOOLEAN :
    \E initR \in IF spawnOk THEN InitReactions(NextId) ELSE {Bare("closed")} :
       LET reached == /\ spawnOk
                      /\ InitOutcome(SendRequestReturn(NextProc, initR)) = "ok"
       IN  \E notifWritten \in IF reached THEN BOOLEAN ELSE {FALSE} :
           \E listR \in IF reached THEN ListReactions(NextId + 1) ELSE {Bare("closed")} :
              /\ PipeStaysClosed(notifWritten, listR)
              /\ Start(spawnOk, initR, notifWritten, listR)

\* get_tools(), lines 202-208: the list the client holds
get_tools(tools) == tools

\* a slip: the tool list is reset by every call
CallToolDropsTools(reaction) ==
    LET id == NextId
        response == SendRequestReturn(process, reaction)
    IN  /\ request_id' = id
        /\ built' = Append(built, id)
        /\ wire' = wire \o SendRequestWire(process, "tools/call", id, reaction)
        /\ ret' = CallRet(response, CallToolOutcome(response))
        /\ available_tools' = <<>>
        /\ UNCHANGED <<process, procs, signals>>

\* call_tool(): build the request, send it, read the answer
CallTool(reaction) ==
    LET id == NextId
        response == SendRequestReturn(process, reaction)
    IN  /\ request_id' = id
        /\ built' = Append(built, id)
        /\ wire' = wire \o SendRequestWire(process, "tools/call", id, reaction)
        /\ ret' = CallRet(response, CallToolOutcome(response))
        /\ UNCHANGED <<process, available_tools, procs, signals>>

\* a slip: terminate() is called on the handle without the test of line 212
StopOutcomeUnguarded(held) == IF held = None THEN Raised ELSE Plain

\* stop(), lines 212-220: how the call ends; the handle is tested first
StopOutcome(held) == Plain

\* a slip: the child is killed at once, without terminate() and the wait
StopSignalsKillOnly(p, exitsInGrace) == << Signal(p, "KILL") >>

\* stop(), lines 214-217: terminate(), then kill() when the wait timed out
StopSignals(p, exitsInGrace) ==
    IF exitsInGrace
    THEN << Signal(p, "TERM") >>
    ELSE << Signal(p, "TERM"), Signal(p, "KILL") >>

\* stop(): terminate, wait up to 5 s, kill on timeout, clear the handle
Stop(exitsInGrace) ==
    /\ IF process # None
       THEN /\ procs' = [procs EXCEPT ![process] =
                            IF exitsInGrace THEN "terminated" ELSE "killed"]
            /\ signals' = signals \o StopSignals(process, exitsInGrace)
            /\ process' = None
       ELSE UNCHANGED <<process, procs, signals>>
    /\ ret' = Ret("stop", Bare("none"), Bare("none"), StopOutcome(process), TRUE)
    /\ UNCHANGED <<request_id, available_tools, wire, built>>

\* __init__, lines 21-24
ClientInit ==
    /\ process = None
    /\ request_id = 0
    /\ available_tools = <<>>
    /\ procs = [p \in Procs |-> "unspawned"]
    /\ signals = <<>>
    /\ wire = <<>>
    /\ built = <<>>
    /\ ret = Ret("init", Bare("none"), Bare("none"), Plain, TRUE)

----------------------------------------------------------------------------
(* tools.py and the tool map of main.py *)

\* tools.py:21, with the arguments each local tool cannot do without
ALL_TOOLS ==
    << [kind |-> "local", name |-> "tool_time", required |-> {}],
       [kind |-> "local", name |-> "tool_calc", required |-> {"expression"}] >>

\* create_mcp_tool: a field is required when the schema lists it as such
create_mcp_tool(tool_def) ==
    [kind |-> "remote", name |-> tool_def.name,
     required |-> { a \in tool_def.properties : a \in tool_def.required }]

\* main.py:134-135
MCP_TOOLS(defs) == [i \in 1..Len(defs) |-> create_mcp_tool(defs[i])]

\* main.py:141, {tool.name: tool for tool in ...}: a later tool replaces an earlier one
BuildToolMap(tools) ==
    [n \in { tools[i].name : i \in 1..Len(tools) } |->
        LET last == CHOOSE i \in 1..Len(tools) :
                       /\ tools[i].name = n
                       /\ \A j \in (i + 1)..Len(tools) : tools[j].name # n
        IN  tools[last]]

----------------------------------------------------------------------------
(* Messages and what the model may answer *)

SYSTEM_PROMPT == Str("You are an intelligent travel planning assistant")

Msg(role, content, tool_calls, tool_call_id) ==
    [role |-> role, content |-> content, tool_calls |-> tool_calls,
     tool_call_id |-> tool_call_id]

SystemMessage(content) == Msg("system", content, <<>>, "")
HumanMessage(content) == Msg("user", content, <<>>, "")
AIMessage(content, tool_calls) == Msg("assistant", content, tool_calls, "")
ToolMessage(content, tool_call_id) == Msg("tool", content, <<>>, tool_call_id)

UserInputs == { Str("plan a trip") }

\* the tool calls a model may ask for, under a given call id
ToolCalls(id) ==
    { [id |-> id, name |-> c[1], args |-> c[2]] :
        c \in { <<"tool_calc", {"expression"}>>,
                <<"get_weather", {}>>, <<"get_weather", {"location"}>>,
                <<"nonexistent", {}>> } }

\* a plain answer, one tool call, or two tool calls with distinct ids
ModelResponses ==
    { AIMessage(Str("final answer"), <<>>) }
    \cup { AIMessage(NoStr, <<c>>) : c \in ToolCalls("call_a") }
    \cup { AIMessage(NoStr, <<c, d>>) : c \in ToolCalls("call_a"), d \in ToolCalls("call_b") }

NumModelCalls ==
    Cardinality({ i \in 1..Len(conversation_history) :
                    conversation_history[i].role = "assistant" })

----------------------------------------------------------------------------
(* main.py *)

\* module level, lines 31-83
MainInit ==
    /\ pc = "boot"
    /\ conversation_history = << SystemMessage(SYSTEM_PROMPT) >>
    /\ TOOL_MAP = << >>
    /\ pending = <<>>
    /\ dispatched = <<>>
    /\ turns = 0
    /\ answer = NoStr

\* lines 129-144: start the server or exit(1), then build the tool map
MainStart ==
    /\ pc = "boot"
    /\ StartAny
    /\ IF ret'.ok
       THEN /\ TOOL_MAP' = BuildToolMap(ALL_TOOLS \o MCP_TOOLS(get_tools(available_tools')))
            /\ pc' = "loop"
       ELSE /\ pc' = "exited"
            /\ UNCHANGED TOOL_MAP
    /\ UNCHANGED <<conversation_history, pending, dispatched, turns, answer>>

\* lines 154-157 and 193-196: 'quit' leaves the loop, the finally clause stops the server
MainQuit ==
    /\ pc = "loop"
    /\ \E exitsInGrace \in BOOLEAN : Stop(exitsInGrace)
    /\ pc' = "done"
    /\ UNCHANGED <<conversation_history, TOOL_MAP, pending, dispatched, turns, answer>>

\* lines 162 and 88: chat() appends the user's message and goes to the model
ChatBegin ==
    /\ pc = "loop"
    /\ turns < MaxTurns
    /\ \E user_message \in UserInputs :
          conversation_history' = Append(conversation_history, HumanMessage(user_message))
    /\ pc' = "invoke"
    /\ turns' = turns + 1
    /\ pending' = <<>>
    /\ UNCHANGED <<TOOL_MAP, dispatched, answer>>
    /\ UNCHANGED clientVars

\* a slip: the turn returns what the turn before returned
ChatReturnStale(response) == answer

\* line 122
ChatReturn(response) == response.content

\* a slip: the loop is never entered
LoopTestNever(response) == FALSE

\* line 94, while response.tool_calls
LoopTest(response) == response.tool_calls # <<>>

\* lines 91-96 and 117-122: the model answers; a plain answer ends the turn
ChatModel ==
    /\ pc = "invoke"
    /\ NumModelCalls < MaxModelCalls
    /\ \E response \in ModelResponses :
          /\ conversation_history' = Append(conversation_history, response)
          /\ pending' = response.tool_calls
          /\ pc' = IF LoopTest(response) THEN "tools" ELSE "loop"
          /\ answer' = IF LoopTest(response) THEN answer ELSE ChatReturn(response)
    /\ UNCHANGED <<TOOL_MAP, dispatched, turns>>
    /\ UNCHANGED clientVars

\* a fault leaves chat() at the line that raised it, on its way to the finally clause
Raise ==
    /\ pc' = "raised"
    /\ UNCHANGED <<conversation_history, TOOL_MAP, pending, turns, answer>>

\* a slip: the result goes to the history without the call's id
AppendResultNoId(tool_call, content) ==
    /\ conversation_history' =
          Append(conversation_history, ToolMessage(content, ""))
    /\ pending' = Tail(pending)
    /\ pc' = IF Tail(pending) = <<>> THEN "invoke" ELSE "tools"
    /\ UNCHANGED <<TOOL_MAP, turns, answer>>

\* a slip: the result takes the place of the last message of the history
AppendResultOverLast(tool_call, content) ==
    /\ conversation_history' =
          [conversation_history EXCEPT ![Len(conversation_history)] =
              ToolMessage(content, tool_call.id)]
    /\ pending' = Tail(pending)
    /\ pc' = IF Tail(pending) = <<>> THEN "invoke" ELSE "tools"
    /\ UNCHANGED <<TOOL_MAP, turns, answer>>

\* lines 109-114: the result goes to the history under the call's id
AppendResult(tool_call, content) ==
    /\ conversation_history' =
          Append(conversation_history, ToolMessage(content, tool_call.id))
    /\ pending' = Tail(pending)
    /\ pc' = IF Tail(pending) = <<>> THEN "invoke" ELSE "tools"
    /\ UNCHANGED <<TOOL_MAP, turns, answer>>

\* a slip: the calls are taken from the end of the list
NextCallLast(calls) == calls[Len(calls)]

\* line 99, for tool_call in response.tool_calls: the call whose turn it is
NextCall(calls) == Head(calls)

\* the record of one invocation
Invocation(tool_call) == [id |-> tool_call.id, name |-> tool_call.name]

\* line 106, TOOL_MAP[tool_name]: a KeyError when the name is not a key
Known(name) == name \in DOMAIN TOOL_MAP

\* a slip: every field of the args schema is optional
ValidatesAnything(tool, args) == TRUE

\* lines 57-63 and 74: the args schema wants every required field
Validates(tool, args) == tool.required \subseteq args

\* lines 99-114, one pass of the for loop
ChatDispatch ==
    /\ pc = "tools"
    /\ LET tool_call == NextCall(pending) IN
       IF ~Known(tool_call.name)
       THEN /\ Raise
            /\ UNCHANGED dispatched
            /\ UNCHANGED clientVars
       ELSE LET tool == TOOL_MAP[tool_call.name] IN
            /\ dispatched' = Append(dispatched, Invocation(tool_call))
            /\ IF ~Validates(tool, tool_call.args)
               THEN \* the args schema rejects the input before the function runs
                    /\ Raise
                    /\ UNCHANGED clientVars
               ELSE IF tool.kind = "local"
               THEN /\ \E returns \in BOOLEAN :
                          IF returns
                          THEN AppendResult(tool_call, Str("local result"))
                          ELSE Raise
                    /\ UNCHANGED clientVars
               ELSE /\ request_id < MaxId
                    /\ \E reaction \in ChatReactions(NextId) :
                          /\ CallTool(reaction)
                          /\ IF ret'.raised \/ ~ret'.isstr
                             THEN Raise   \* call_tool raised, or ToolMessage rejects None
                             ELSE AppendResult(tool_call, ret'.value)

\* lines 193-196: the finally clause on the way out of a fault
MainFinally ==
    /\ pc = "raised"
    /\ \E exitsInGrace \in BOOLEAN : Stop(exitsInGrace)
    /\ pc' = "crashed"
    /\ UNCHANGED <<conversation_history, TOOL_MAP, pending, dispatched, turns, answer>>

Init == ClientInit /\ MainInit

MainNext == MainStart \/ MainQuit \/ ChatBegin \/ ChatModel \/ ChatDispatch \/ MainFinally

Spec == Init /\ [][MainNext]_vars

\* the program with a model that answers every invoke and tools that finish
\* every dispatch, by a result or by a fault
FairSpec == Spec /\ WF_vars(ChatModel) /\ WF_vars(ChatDispatch)

----------------------------------------------------------------------------
(* One FastMCPClient used through its public methods, in any order *)

ClientStart ==
    /\ NextProc <= MaxProcs
    /\ request_id < MaxId
    /\ StartAny
    /\ UNCHANGED mainVars

ClientCallTool ==
    /\ request_id < MaxId
    /\ \E reaction \in CallReactions(NextId) : CallTool(reaction)
    /\ UNCHANGED mainVars

ClientStop ==
    /\ \E exitsInGrace \in BOOLEAN : Stop(exitsInGrace)
    /\ UNCHANGED mainVars

ClientNext == ClientStart \/ ClientCallTool \/ ClientStop

ClientSpec == Init /\ [][ClientNext]_vars

----------------------------------------------------------------------------
(* Reading the history and the wire *)

History == conversation_history

IsRequest(i) == History[i].role = "assistant" /\ History[i].tool_calls # <<>>

\* the tool results that directly follow the assistant message at i
Answers(i) ==
    { j \in (i + 1)..Len(History) :
        \A k \in (i + 1)..j : History[k].role = "tool" }

AssistantIdx == { i \in 1..Len(History) : History[i].role = "assistant" }

ToolIdx == { i \in 1..Len(History) : History[i].role = "tool" }

\* the tool calls the model has asked for so far, in the order it asked
RECURSIVE RequestedUpTo(_)
RequestedUpTo(n) ==
    IF n = 0 THEN <<>>
    ELSE RequestedUpTo(n - 1) \o
         [k \in 1..Len(History[n].tool_calls) |-> Invocation(History[n].tool_calls[k])]

Requested == RequestedUpTo(Len(History))

IsPrefix(s, t) == Len(s) <= Len(t) /\ \A i \in 1..Len(s) : s[i] = t[i]

Written(method) == { i \in 1..Len(wire) : wire[i].ev = "write" /\ wire[i].method = method }

----------------------------------------------------------------------------
(* C1: whenever chat() is about to call the model, every tool call of      *)
(* every assistant message in the history has exactly one tool result      *)
(* with its id among the results that directly follow that message.        *)

C1_HistoryWellFormed ==
    pc = "invoke" =>
        \A i \in 1..Len(History) :
            IsRequest(i) =>
                \A k \in 1..Len(History[i].tool_calls) :
                    Cardinality({ j \in Answers(i) :
                        History[j].tool_call_id = History[i].tool_calls[k].id }) = 1

\* a second turn reaches the model after a two-call response whose first
\* dispatch failed into an error text
C1_Witness ==
    /\ pc = "invoke"
    /\ turns = 2
    /\ \E i \in 1..Len(History) :
          /\ IsRequest(i)
          /\ Len(History[i].tool_calls) = 2
          /\ i + 2 <= Len(History)
          /\ History[i + 1].content = NoResponseMsg

(* C2: the tool calls of one response are dispatched one after another in  *)
(* the order the model listed them, their results stand in the history in  *)
(* that order right behind the response, each under its call's id, and the *)
(* model is called again only when all of them are there.                  *)

C2_DispatchInOrder ==
    /\ IsPrefix(dispatched, Requested)
    /\ Cardinality(ToolIdx) <= Len(dispatched)
    /\ Len(dispatched) <= Cardinality(ToolIdx) + 1
    /\ \A i \in 1..Len(History) :
          IsRequest(i) =>
              LET n == Len(History[i].tool_calls) IN
              /\ \A k \in 1..n :
                    i + k <= Len(History) =>
                        /\ History[i + k].role = "tool"
                        /\ History[i + k].tool_call_id = History[i].tool_calls[k].id
              /\ i + n < Len(History) => History[i + n + 1].role # "tool"
              /\ i + n > Len(History) => pc \in {"tools", "raised", "crashed"}
    /\ pc = "invoke" => pending = <<>>

\* both calls of a two-call response are answered and the model is up next
C2_Witness ==
    /\ pc = "invoke"
    /\ Len(dispatched) = 2
    /\ \E i \in 1..Len(History) :
          /\ IsRequest(i)
          /\ Len(History[i].tool_calls) = 2
          /\ Len(History) = i + 2
          /\ History[i + 1].tool_call_id = "call_a"
          /\ History[i + 2].tool_call_id = "call_b"

(* C3: call_tool never raises and always returns a string, whatever the    *)
(* server does.                                                            *)

C3_CallToolNeverRaises ==
    ret.op = "call_tool" => ~ret.raised /\ ret.isstr

(* C4: a response without error whose result.content starts with an        *)
(* element carrying text makes call_tool return that text unchanged; a     *)
(* response with an error object makes it return a string containing that  *)
(* object's message, with or without a result beside it.                   *)

WellFormed(response) ==
    /\ response.t = "object"
    /\ response.error.t = "absent"
    /\ response.result.t = "object"
    /\ response.result.content.t = "text"

HasErrorMessage(response) ==
    /\ response.t = "object"
    /\ response.error.t = "object"
    /\ response.error.hasMessage

C4_TextOrErrorMessage ==
    ret.op = "call_tool" =>
        /\ WellFormed(ret.response) =>
              ~ret.raised /\ ret.isstr /\ ret.value = ret.response.result.content.text
        /\ HasErrorMessage(ret.response) =>
              ~ret.raised /\ ret.isstr /\ Contains(ret.value, ret.response.error.message)

\* an error object answered together with a well-formed result
C4_Witness ==
    /\ ret.op = "call_tool"
    /\ HasErrorMessage(ret.response)
    /\ ret.response.result.t = "object"
    /\ ret.response.result.content.t = "text"
    /\ Contains(ret.value, Str("boom"))

(* C5: the ids of the requests a client builds are strictly increasing, so *)
(* none is used twice, over any sequence of start, call_tool and stop.     *)

C5_IdsIncrease ==
    \A i \in 1..Len(built) : \A j \in 1..Len(built) :
        i < j => built[i] < built[j]

\* a restart, and a request built while no process was there to write it to
C5_Witness ==
    /\ Cardinality(Spawned) = 2
    /\ ret.op = "call_tool"
    /\ process = None
    /\ Len(built) >= 3
    /\ \A w \in 1..Len(wire) : wire[w].ev = "write" => wire[w].id # built[Len(built)]

(* C6: a tool call naming a tool that is not in the tool map does not make *)
(* chat() raise.                                                           *)

C6_UnknownToolNoRaise ==
    ~(pc = "raised" /\ pending # <<>> /\ ~Known(NextCall(pending).name))

(* C7: a tool map is never built from tools two of which share a name.     *)

DistinctNames(tools) ==
    \A i \in 1..Len(tools) : \A j \in 1..Len(tools) :
        i # j => tools[i].name # tools[j].name

C7_CollisionFailsBuild ==
    pc \notin {"boot", "exited"} => DistinctNames(ALL_TOOLS \o MCP_TOOLS(available_tools))

(* C8: stop() with no process running raises nothing and changes nothing:  *)
(* no field of the client, no process, nothing on the wire.                *)

C8_StopIdempotent ==
    [][ (process = None /\ ret'.op = "stop") =>
            /\ ~ret'.raised
            /\ UNCHANGED <<process, request_id, available_tools, procs, signals, wire, built>>
      ]_vars

\* stop() has been called before any start()
C8_Witness ==
    /\ ret.op = "stop"
    /\ Spawned = {}
    /\ process = None

(* C9: when the model answers the first call of a turn with one tool call  *)
(* and the second with a plain answer, chat() leaves the history as        *)
(* system, user, assistant with the call, tool result under its id,        *)
(* final assistant; one tool was invoked; the final content was returned.  *)

OneCallThenAnswer ==
    /\ pc = "loop"
    /\ turns = 1
    /\ Cardinality(AssistantIdx) = 2
    /\ \E i \in AssistantIdx, j \in AssistantIdx :
          /\ i < j
          /\ Len(History[i].tool_calls) = 1
          /\ History[j].tool_calls = <<>>

C9_OneToolTurn ==
    OneCallThenAnswer =>
        /\ Len(History) = 5
        /\ History[1].role = "system"
        /\ History[2].role = "user"
        /\ History[3].role = "assistant" /\ Len(History[3].tool_calls) = 1
        /\ History[4].role = "tool"
        /\ History[4].tool_call_id = History[3].tool_calls[1].id
        /\ History[5].role = "assistant" /\ History[5].tool_calls = <<>>
        /\ Len(dispatched) = 1
        /\ dispatched[1] = Invocation(History[3].tool_calls[1])
        /\ answer = History[5].content

C9_Witness ==
    /\ OneCallThenAnswer
    /\ History[4].content = Str("sunny")
    /\ answer = Str("final answer")

(* C10: when initialize gets no response or a response with an error       *)
(* field, start() returns False, neither the initialized notification nor  *)
(* tools/list is written, and the program exits without a model call or a  *)
(* user input; once exited it does nothing more.                           *)

InitializeFailed ==
    /\ ret.op = "start"
    /\ Spawned # {}
    /\ Falsy(ret.response) \/ HasError(ret.response)

C10_InitFailureIsFatal ==
    /\ [](InitializeFailed =>
            /\ ~ret.ok
            /\ Written("notifications/initialized") = {}
            /\ Written("tools/list") = {}
            /\ pc = "exited"
            /\ AssistantIdx = {}
            /\ turns = 0)
    /\ [][pc = "exited" => UNCHANGED vars]_vars

\* initialize was answered with an error object and the program has exited
C10_Witness ==
    /\ InitializeFailed
    /\ HasError(ret.response)
    /\ Written("initialize") # {}
    /\ pc = "exited"

----------------------------------------------------------------------------
(* C11 *)

\* a step of start() that sent its requests
StartStep == ret'.op = "start" /\ request_id' # request_id

\* the last call was a start() whose initialize succeeded
StartListed == ret.op = "start" /\ InitOutcome(ret.response) = "ok"

\* the three tools/list outcomes of the claim: nothing came back, an object
\* without `result`, an object whose `result` is null
ListFailure(tools_response) ==
    \/ Falsy(tools_response)
    \/ /\ tools_response.t = "object"
       /\ tools_response.result.t \in {"absent", "null"}

\* C11 as stated: after a successful initialize, a tools/list that brought no
\* response, no `result` or a null `result` makes start() return False with
\* available_tools empty, and start() returns True only on a `result` object,
\* whose tools available_tools then holds.
C11_ListFailureLeavesEmpty ==
    StartListed =>
        /\ ListFailure(ret.listing) => ~ret.ok /\ available_tools = <<>>
        /\ ret.ok => /\ ret.listing.t = "object"
                     /\ ret.listing.result.t = "object"
                     /\ available_tools = ToolsOf(ret.listing)

\* C11 amended: after a successful initialize, a tools/list that brought no
\* response, no `result` or a null `result` makes start() return False and
\* leaves available_tools as it was before the call (empty unless an earlier
\* start() succeeded); start() returns True only on a `result` object, and
\* available_tools is then its `tools` array, or empty when it has none.
C11_ListFailureKeepsTools ==
    [][ StartStep /\ InitOutcome(ret'.response) = "ok" =>
            /\ ListFailure(ret'.listing) =>
                    ~ret'.ok /\ available_tools' = available_tools
            /\ ret'.ok => /\ ret'.listing.t = "object"
                          /\ ret'.listing.result.t = "object"
                          /\ available_tools' = ToolsOf(ret'.listing)
      ]_vars

\* a second start() met a null `result` and the tools of the first are still there
C11_Witness ==
    /\ StartListed
    /\ ret.listing.t = "object"
    /\ ret.listing.result.t = "null"
    /\ ~ret.ok
    /\ available_tools # <<>>

----------------------------------------------------------------------------
(* C12 *)

\* C12: the conversation history is append-only: every step leaves the
\* history it found as a prefix of the history it hands on, so an earlier
\* history is a prefix of every later one, and the first element is always
\* the seeded system message, the only system message there is.
C12_AppendOnly ==
    /\ [][IsPrefix(conversation_history, conversation_history')]_vars
    /\ [](/\ History[1] = SystemMessage(SYSTEM_PROMPT)
          /\ \A i \in 2..Len(History) : History[i].role # "system")

\* a second chat() call has begun on a history that holds a tool result
C12_Witness ==
    /\ turns = 2
    /\ Len(History) >= 6
    /\ ToolIdx # {}

----------------------------------------------------------------------------
(* C13 *)

\* the call whose turn it is names a remote tool and lacks one of the
\* arguments its schema requires
MissingRequired ==
    /\ pending # <<>>
    /\ Known(Head(pending).name)
    /\ TOOL_MAP[Head(pending).name].kind = "remote"
    /\ \E a \in TOOL_MAP[Head(pending).name].required : a \notin Head(pending).args

\* C13: when a remote tool is invoked with a required argument missing, the
\* invocation fails in the wrapper: nothing is written to the server, no
\* request is built and the request id counter stays where it was.
C13_ValidationBeforeWire ==
    [][ pc = "tools" /\ MissingRequired =>
            /\ pc' = "raised"
            /\ UNCHANGED <<wire, built, request_id>>
      ]_vars

\* get_weather was invoked without its location and the invocation failed
C13_Witness ==
    /\ pc = "raised"
    /\ MissingRequired
    /\ dispatched # <<>>
    /\ dispatched[Len(dispatched)] = Invocation(Head(pending))
    /\ Written("tools/call") = {}

----------------------------------------------------------------------------
(* C14 *)

\* the step dispatches a call that fails at the level of the tool: the name
\* is unknown, a required argument is missing, or the server was asked and
\* the transport failed or the response carries an error
ToolLevelFailure ==
    /\ pc = "tools"
    /\ \/ ~Known(Head(pending).name)
       \/ /\ Known(Head(pending).name)
          /\ \E a \in TOOL_MAP[Head(pending).name].required : a \notin Head(pending).args
       \/ /\ request_id' # request_id
          /\ ret'.op = "call_tool"
          /\ ret'.response.t = "none" \/ HasError(ret'.response)

\* C14: once startup has succeeded, a tool-level failure never makes chat()
\* raise: the dispatch appends a tool-result message under the call's id to
\* the history and the turn goes on, to the next call or to the model.
C14_ToolFailureBecomesText ==
    [][ ToolLevelFailure =>
            /\ pc' \in {"tools", "invoke"}
            /\ Len(conversation_history') = Len(conversation_history) + 1
            /\ conversation_history'[Len(conversation_history')].role = "tool"
            /\ conversation_history'[Len(conversation_history')].tool_call_id
                   = Head(pending).id
      ]_vars

----------------------------------------------------------------------------
(* C15 *)

\* a step of call_tool()
CallStep == ret'.op = "call_tool" /\ request_id' # request_id

\* C15: a call_tool() that meets a transport failure (the pipe closed, the
\* output at its end, a line that is no JSON, no process at all) gets nothing
\* back from _send_request and returns the no-response error string: nothing
\* is raised, and the process handle, the children and the tool list are as
\* they were, so that the next call runs like any other.
C15_TransportFailureIsText ==
    [][ CallStep /\ ret'.response.t = "none" =>
            /\ ~ret'.raised
            /\ ret'.isstr
            /\ ret'.value = NoResponseMsg
            /\ UNCHANGED <<process, procs, signals, available_tools>>
      ]_vars

\* after a start() that found tools, a call was written and its answer could
\* not be read
C15_Witness ==
    /\ ret.op = "call_tool"
    /\ ret.response.t = "none"
    /\ process # None
    /\ available_tools # <<>>
    /\ wire # <<>>
    /\ wire[Len(wire)].ev = "read"
    /\ wire[Len(wire)].method = "failed"
    /\ wire[Len(wire)].id = request_id

----------------------------------------------------------------------------
(* C16 *)

\* C16: the response handed back for a request carries that request's id:
\* what call_tool() worked on is the answer to the request it has just
\* built, and the listing start() worked on is the answer to its tools/list.
C16_ResponseCarriesRequestId ==
    /\ ret.op = "call_tool" /\ ret.response.t = "object" /\ ret.response.jsonrpc =>
           ret.response.id = request_id
    /\ ret.op = "start" /\ ret.listing.t = "object" /\ ret.listing.jsonrpc =>
           ret.listing.id = request_id

----------------------------------------------------------------------------
(* C17 *)

\* the requests among the lines written: a notification carries no id
RequestsWritten == { i \in 1..Len(wire) : wire[i].ev = "write" /\ wire[i].id # 0 }

\* C17: at most one request is in flight: every request written to the
\* server is followed at once, before any other line is written, by the read
\* of its answer from the same process, a line or a failed read.
C17_OneInFlight ==
    \A i \in RequestsWritten :
        /\ i < Len(wire)
        /\ wire[i + 1].ev = "read"
        /\ wire[i + 1].proc = wire[i].proc
        /\ wire[i + 1].id = wire[i].id

\* the handshake, the notification, the listing and a tool call of the
\* conversation loop have all gone over the wire
C17_Witness ==
    /\ pc \in {"tools", "invoke"}
    /\ Written("notifications/initialized") # {}
    /\ Written("tools/list") # {}
    /\ Written("tools/call") # {}
    /\ Cardinality(RequestsWritten) >= 3

----------------------------------------------------------------------------
(* C18 *)

\* before line i of the wire, process p answered an initialize request with
\* a line and was sent the initialized notification after that
HandshakeBefore(i, p) ==
    \E j \in Written("initialize") :
        /\ wire[j].proc = p
        /\ wire[j + 1].ev = "read"
        /\ wire[j + 1].method = "line"
        /\ \E k \in Written("notifications/initialized") :
               j + 1 < k /\ k < i /\ wire[k].proc = p

\* C18: no tools/list and no tools/call request is written to a server
\* before that server has answered an initialize request and has been sent
\* the initialized notification, in any sequence of start(), call_tool() and
\* stop().
C18_HandshakeFirst ==
    \A i \in Written("tools/list") \cup Written("tools/call") :
        HandshakeBefore(i, wire[i].proc)

----------------------------------------------------------------------------
(* C19 *)

\* C19: the handshake succeeds only on an initialize response that carries
\* a `result` and no `error`: start() returns False whenever the initialize
\* response lacks the `result` or carries an `error`.
C19_InitNeedsResult ==
    ret.op = "start" /\ ret.ok =>
        HasResult(ret.response) /\ ~HasError(ret.response)

----------------------------------------------------------------------------
(* C20 *)

\* the signals a step has sent
Sent == SubSeq(signals', Len(signals) + 1, Len(signals'))

\* C20: stop() on a held process sends it the request to terminate first
\* and a kill after that only when it did not exit within the wait; when
\* stop() returns the handle is cleared and the process has been terminated
\* or killed, never left running.
C20_StopTermThenKill ==
    /\ [][ process # None /\ ret'.op = "stop" =>
              /\ process' = None
              /\ procs'[process] \in {"terminated", "killed"}
              /\ IsPrefix(signals, signals')
              /\ Sent # <<>>
              /\ Sent[1] = Signal(process, "TERM")
              /\ procs'[process] = "terminated" => Sent = << Signal(process, "TERM") >>
              /\ procs'[process] = "killed" =>
                     Sent = << Signal(process, "TERM"), Signal(process, "KILL") >>
        ]_vars
    /\ [](ret.op = "stop" => process = None)

\* a child that did not exit within the wait was killed by stop()
C20_Witness ==
    /\ ret.op = "stop"
    /\ process = None
    /\ Len(signals) >= 2
    /\ signals[Len(signals)].sig = "KILL"
    /\ signals[Len(signals) - 1] = Signal(signals[Len(signals)].proc, "TERM")
    /\ procs[signals[Len(signals)].proc] = "killed"

----------------------------------------------------------------------------
(* C21 *)

\* every answer the model has given so far carried tool calls
OnlyToolCalls == \A i \in AssistantIdx : History[i].tool_calls # <<>>

\* C21: a turn is bounded: chat() is never about to call the model once
\* more after a whole horizon of model calls, all of them in one turn and
\* all of them answered with tool calls; by then the turn has been given up.
C21_TurnBounded ==
    ~(/\ turns = 1
      /\ pc = "invoke"
      /\ NumModelCalls = MaxModelCalls
      /\ OnlyToolCalls)

----------------------------------------------------------------------------
(* C22 *)

\* a start() that built no request: the child could not be spawned
SpawnFailedStep == ret'.op = "start" /\ built' = built

\* C22: a start() whose child cannot be spawned returns False, raises
\* nothing and leaves the client without a process handle; and with no
\* handle, stop() changes nothing and call_tool() returns the no-response
\* error string.
C22_SpawnFailureIsFalse ==
    /\ [][ SpawnFailedStep =>
              /\ ~ret'.ok
              /\ ~ret'.raised
              /\ process' = None
              /\ UNCHANGED <<request_id, wire, available_tools>>
        ]_vars
    /\ [][ process = None /\ ret'.op = "stop" =>
              /\ ~ret'.raised
              /\ UNCHANGED <<process, procs, signals, wire, built, request_id>>
        ]_vars
    /\ [][ process = None /\ ret'.op = "call_tool" =>
              /\ ~ret'.raised
              /\ ret'.isstr
              /\ ret'.value = NoResponseMsg
              /\ wire' = wire
        ]_vars

\* a later start() of a client that had spawned a child before could not
\* spawn its own, and the client holds no handle
C22_Witness ==
    /\ ret.op = "start"
    /\ ~ret.ok
    /\ ret.response.t = "none"
    /\ process = None
    /\ Cardinality(Spawned) = 1
    /\ built # <<>>

----------------------------------------------------------------------------
(* C23 *)

\* C23: once start() has returned and the tool map is built, no step of the
\* program, no chat() turn, no call_tool() with whatever answer of the
\* server, no stop(), changes available_tools or the tool map.
C23_ToolsFixed ==
    [][ pc # "boot" => UNCHANGED <<available_tools, TOOL_MAP>> ]_vars

\* a remote tool of the map has been called and answered during a turn
C23_Witness ==
    /\ pc \in {"tools", "invoke"}
    /\ available_tools # <<>>
    /\ "get_weather" \in DOMAIN TOOL_MAP
    /\ ret.op = "call_tool"
    /\ ret.response.t = "object"
    /\ Written("tools/call") # {}

----------------------------------------------------------------------------
(* C24 *)

LastMessage(h) == h[Len(h)]

\* chat() stands where the bounds of the model end: before a model call
\* beyond MaxModelCalls, or before a request beyond MaxId
AtHorizon ==
    \/ pc = "invoke" /\ NumModelCalls >= MaxModelCalls
    \/ /\ pc = "tools"
       /\ request_id >= MaxId
       /\ Known(Head(pending).name)
       /\ TOOL_MAP[Head(pending).name].kind = "remote"

\* C24: chat() returns exactly when the model's response carries no tool
\* calls: a model call ends the turn if and only if its response, then the
\* last element of the history, has no tool calls, and the content of that
\* response is what is returned; a turn is never left for the input loop in
\* any other way. With a model that answers and dispatches that finish,
\* every turn goes on until it returns or a dispatch faults, for as long
\* as the model keeps asking for tools.
C24_ReturnsOnPlainAnswer ==
    /\ [][ pc = "invoke" /\ conversation_history' # conversation_history =>
              /\ LastMessage(conversation_history').role = "assistant"
              /\ pc' = "loop" <=> LastMessage(conversation_history').tool_calls = <<>>
              /\ pc' # "loop" => pc' = "tools" /\ answer' = answer
              /\ pc' = "loop" => answer' = LastMessage(conversation_history').content
        ]_vars
    /\ [][ pc' = "loop" /\ pc \in {"invoke", "tools"} =>
              /\ pc = "invoke"
              /\ Len(conversation_history') = Len(conversation_history) + 1
        ]_vars
    /\ (pc = "invoke") ~> (pc \in {"loop", "raised"} \/ AtHorizon)
    /\ (pc = "tools") ~> (pc \in {"invoke", "raised"} \/ AtHorizon)

\* a turn that went through a round of tool calls has returned the content
\* of the plain answer that is now the last element of the history
C24_Witness ==
    /\ pc = "loop"
    /\ turns >= 1
    /\ ToolIdx # {}
    /\ LastMessage(History).role = "assistant"
    /\ LastMessage(History).tool_calls = <<>>
    /\ History[Len(History) - 1].role = "tool"
    /\ answer = LastMessage(History).content

----------------------------------------------------------------------------
(* C25 *)

\* C25: when start() has returned False the client holds no process and no
\* child it spawned is running, so that the program exits on a startup
\* failure without leaving a tool server behind.
C25_FailedStartStopsChild ==
    ret.op = "start" /\ ~ret.ok =>
        /\ process = None
        /\ \A p \in Spawned : procs[p] # "running"

----------------------------------------------------------------------------
(* C26 *)

\* C26: a client owns at most one live child: every process it has spawned,
\* other than the one its handle holds, has been terminated or killed.
C26_OneLiveChild ==
    \A p \in Spawned : p # process => procs[p] \in {"terminated", "killed"}

====
